---- MODULE Spec2Model ----
(***************************************************************************)
(* Time steppers of jax-cfd.                                               *)
(*                                                                         *)
(*   base/time_stepping.py      navier_stokes_rk and its presets           *)
(*   spectral/time_stepping.py  _InfixArithmeticWrapper, ImplicitExplicit- *)
(*                              ODE, backward_forward_euler,               *)
(*                              crank_nicolson_rk2,                        *)
(*                              low_storage_runge_kutta_crank_nicolson     *)
(*   spectral/equations.py      NavierStokes2D.explicit_terms              *)
(*                                                                         *)
(* Numbers are exact integers.  A state is one integer for the steppers    *)
(* (the vector view of a pytree with one leaf) and a nested pytree for the *)
(* arithmetic wrapper.  Python sequences are indexed from 0, TLA+          *)
(* sequences from 1: Python x[j] is x[j + 1] here.                         *)
(***************************************************************************)
EXTENDS Integers, Sequences, FiniteSets, TLC

VARIABLES
  \* ---- base/time_stepping.py: navier_stokes_rk(a, b, equation, time_step)
  factory,      \* which factory was called: navier_stokes_rk or a preset
  a,            \* Butcher tableau, one row per stage after the first
  b,            \* Butcher weights
  equation,     \* [explicit_terms, pressure_projection]
  time_step,    \* dt
  pc,           \* position of the caller / of step_fn
  err,          \* the exception that ended the run, "none" otherwise
  u0,           \* step_fn's argument
  i,            \* loop variable of step_fn (line 95)
  k,            \* k[0..i-1] of step_fn, as a sequence
  u,            \* u[0..i-1] of step_fn, as a sequence
  u_star,       \* step_fn's u_star
  u_final,      \* step_fn's return value
  calls,        \* the calls of equation's functions made so far, in order
  \* ---- spectral/time_stepping.py: the implicit-explicit steppers
  stepper,      \* the factory called
  alphas,       \* its coefficients (low_storage_runge_kutta_crank_nicolson)
  betas,
  gammas,
  ode,          \* the ImplicitExplicitODE: its functions, and which of them
                \* the concrete class implements
  dt,           \* time_step
  ipc,          \* position of the caller / of step_fn
  ierr,         \* the exception that ended the run, "none" otherwise
  ncalls,       \* calls of a step function that have returned
  arg,          \* the argument of the running call of step_fn
  beta,         \* the betas the called step function closes over
  g,            \* locals of the step functions of backward_forward_euler
  h1,           \*   and crank_nicolson_rk2
  u1,
  h2,
  ls_u,         \* locals u, h, mu, k of the low storage step function
  h,
  mu,
  ls_k,
  out,          \* the value the last call returned
  called,       \* the functions of ode the running call has called, in order
  returns,      \* [arg, beta0, out] of every call that has returned
  \* ---- spectral/time_stepping.py: _InfixArithmeticWrapper.__add__
  self_pytree,  \* self.pytree
  other,        \* the right operand: a wrapper's pytree, or a scalar
  other_wrapped, \* whether other is an _InfixArithmeticWrapper
  wpc,          \* position of the caller
  werr,         \* the exception __add__ raised, "none" otherwise
  result,       \* the pytree of the wrapper __add__ returned
  \* ---- spectral/equations.py: NavierStokes2D.explicit_terms
  made_by,      \* NavierStokes2D or ForcedNavierStokes2D
  smooth,       \* the fields of the dataclass
  forcing_fn,
  filter_,
  advection_hat, \* the advection term as line 64 leaves it
  forcing_hat,  \* rfftn of what forcing_fn returns
  terms,        \* the value explicit_terms returned
  npc           \* position of the caller

rkVars == <<factory, a, b, equation, time_step, pc, err, u0, i, k, u,
            u_star, u_final, calls>>

imexArgs == <<stepper, alphas, betas, gammas, ode, dt>>

imexLocals == <<g, h1, u1, h2, ls_u, h, mu, ls_k>>

imexVars == <<imexArgs, ipc, ierr, ncalls, arg, beta, imexLocals, out, called,
              returns>>

wrapperVars == <<self_pytree, other, other_wrapped, wpc, werr, result>>

nsVars == <<made_by, smooth, forcing_fn, filter_, advection_hat, forcing_hat,
            terms, npc>>

vars == <<rkVars, imexVars, wrapperVars, nsVars>>

-----------------------------------------------------------------------------
(* Bounds of the model *)

\* most stages of an enumerated Butcher tableau
MaxStages == 3

\* coefficients of an enumerated Butcher tableau
Coeffs == {0, 1}

\* states handed to a step function
States == {0, 1, 3}

\* values of time_step
TimeSteps == {1, 2}

\* most stages of a low storage scheme: betas and gammas hold up to
\* MaxLowStorage coefficients and alphas up to MaxLowStorage + 1
MaxLowStorage == 3

\* most calls of one step function
MaxCalls == 2

\* values of betas[0] of the step functions called
Beta0s == {0, 1, -2}

\* values of time_step of an implicit-explicit stepper: even, so that
\* 0.5 * dt is an integer
EvenTimeSteps == {2, 4}

-----------------------------------------------------------------------------
(* Sequences *)

SeqsOfLen(S, n) == [1..n -> S]

SeqsUpTo(S, n) == UNION {SeqsOfLen(S, m) : m \in 0..n}

\* the strictly lower triangular matrices with n rows: row r has r entries
RECURSIVE LowerTriangular(_)
LowerTriangular(n) ==
  IF n = 0 THEN {<<>>}
  ELSE {Append(m, row) : m \in LowerTriangular(n - 1), row \in SeqsOfLen(Coeffs, n)}

-----------------------------------------------------------------------------
(* base/time_stepping.py *)

\* The functions an ExplicitNavierStokesODE is built from (lines 34-36) are
\* the caller's.  explicit_terms: the zero dynamics, dx/dt = -x, and a
\* nonlinear term; pressure_projection: the identity and the projection onto
\* the even integers.
ExplicitTermsFns == {"zero", "neg", "square"}

ProjectionFns == {"identity", "even"}

ExplicitNavierStokesODE ==
  [explicit_terms : ExplicitTermsFns, pressure_projection : ProjectionFns]

Apply(fn, x) ==
  CASE fn = "zero" -> 0
    [] fn = "neg" -> -x
    [] fn = "square" -> (x * x) % 5
    [] fn = "identity" -> x
    [] fn = "even" -> x - (x % 2)

\* F and P of navier_stokes_rk (lines 79-80)
F(x) == Apply(equation.explicit_terms, x)

P(x) == Apply(equation.pressure_projection, x)

\* _sum (lines 47-52): "result, *xs = xs" raises ValueError on an empty xs
SumRaises(xs) == Len(xs) = 0

RECURSIVE SumLoop(_, _)
SumLoop(res, xs) ==
  IF xs = <<>> THEN res ELSE SumLoop(res + Head(xs), Tail(xs))

_sum(xs) == SumLoop(Head(xs), Tail(xs))

\* "for j in range(n) if row[j]" off by one: range(1, n)
WeightedTerms_fromOne(row, ks, n) ==
  LET js == SelectSeq([j \in 1..n |-> j], LAMBDA j : j > 1 /\ row[j] # 0)
  IN  [m \in 1..Len(js) |-> row[js[m]] * ks[js[m]]]

\* the generator "row[j] * k[j] for j in range(n) if row[j]" (lines 96, 100)
WeightedTerms(row, ks, n) ==
  LET js == SelectSeq([j \in 1..n |-> j], LAMBDA j : row[j] # 0)
  IN  [m \in 1..Len(js) |-> row[js[m]] * ks[js[m]]]

\* the check of line 82 without its "+ 1"
Inconsistent_noPlusOne(aa, bb) == Len(aa) # Len(bb)

\* line 82: "if len(a) + 1 != len(b)"
Inconsistent(aa, bb) == Len(aa) + 1 # Len(bb)

\* line 85
num_steps == Len(b)

\* The presets (lines 108-161).  Their tableaux hold fractions; with D the
\* common denominator, (a, b, dt) and (D * a, D * b, dt / D) are the same
\* step, so each is held as D * a, D * b and time_step counts dt / D.
forward_euler == [a |-> <<>>, b |-> <<1>>]

midpoint_rk2 == [a |-> << <<1>> >>, b |-> <<0, 2>>]

heun_rk2 == [a |-> << <<2>> >>, b |-> <<1, 1>>]

classic_rk4 == [a |-> << <<3>>, <<0, 3>>, <<0, 0, 6>> >>, b |-> <<1, 2, 2, 1>>]

Preset(name) ==
  CASE name = "forward_euler" -> forward_euler
    [] name = "midpoint_rk2" -> midpoint_rk2
    [] name = "heun_rk2" -> heun_rk2
    [] name = "classic_rk4" -> classic_rk4

PresetNames == {"forward_euler", "midpoint_rk2", "heun_rk2", "classic_rk4"}

\* the arguments navier_stokes_rk is called with: a lower triangular a of
\* fewer than MaxStages rows and any b of at most MaxStages entries
Tableaux ==
  {[a |-> aa, b |-> bb] :
     aa \in UNION {LowerTriangular(n) : n \in 0..(MaxStages - 1)},
     bb \in SeqsUpTo(Coeffs, MaxStages)}

Call(fn, x, y) == [fn |-> fn, arg |-> x, ret |-> y]

\* a pytree: a leaf (a Python float, or an ndarray of one axis) holds its
\* numbers in elems, a node (a list or a tuple) its children in kids
Float(v) == [tag |-> "float", elems |-> <<v>>, kids |-> <<>>]

NdArray(vs) == [tag |-> "ndarray", elems |-> vs, kids |-> <<>>]

Node(tag, kids) == [tag |-> tag, elems |-> <<>>, kids |-> kids]

NoTree == [tag |-> "none", elems |-> <<>>, kids |-> <<>>]

\* _InfixArithmeticWrapper, not used
IdleWrapper ==
  /\ self_pytree = NoTree
  /\ other = NoTree
  /\ other_wrapped = FALSE
  /\ wpc = "idle"
  /\ werr = "none"
  /\ result = NoTree

\* NavierStokes2D, not used
IdleNS ==
  /\ made_by = "none"
  /\ smooth = "None"
  /\ forcing_fn = "None"
  /\ filter_ = <<>>
  /\ advection_hat = <<>>
  /\ forcing_hat = <<>>
  /\ terms = <<>>
  /\ npc = "idle"

\* the implicit-explicit steppers, not called
IdleIMEX ==
  /\ stepper = "none"
  /\ alphas = <<>>
  /\ betas = <<>>
  /\ gammas = <<>>
  /\ ode = [explicit_terms |-> "zero", implicit_terms |-> "zero",
            implicit_solve |-> "identity", implemented |-> {}]
  /\ dt = 0
  /\ ipc = "idle"
  /\ ierr = "none"
  /\ ncalls = 0
  /\ arg = 0
  /\ beta = <<>>
  /\ g = 0
  /\ h1 = 0
  /\ u1 = 0
  /\ h2 = 0
  /\ ls_u = 0
  /\ h = 0
  /\ mu = 0
  /\ ls_k = 0
  /\ out = 0
  /\ called = <<>>
  /\ returns = {}

InitRK ==
  /\ IdleIMEX
  /\ IdleWrapper
  /\ IdleNS
  /\ \/ /\ factory = "navier_stokes_rk"
        /\ \E tb \in Tableaux : a = tb.a /\ b = tb.b
     \/ /\ factory \in PresetNames
        /\ a = Preset(factory).a
        /\ b = Preset(factory).b
  /\ equation \in ExplicitNavierStokesODE
  /\ time_step \in TimeSteps
  /\ pc = "construct"
  /\ err = "none"
  /\ u0 = 0
  /\ i = 0
  /\ k = <<>>
  /\ u = <<>>
  /\ u_star = 0
  /\ u_final = 0
  /\ calls = <<>>

\* navier_stokes_rk, lines 78-105: raise ValueError or return step_fn
navier_stokes_rk ==
  /\ pc = "construct"
  /\ IF Inconsistent(a, b)
       THEN /\ err' = "ValueError"
            /\ pc' = "construct_raised"
       ELSE /\ err' = err
            /\ pc' = "step_fn"
  /\ UNCHANGED <<imexVars, wrapperVars, nsVars>>
  /\ UNCHANGED <<factory, a, b, equation, time_step, u0, i, k, u, u_star,
                 u_final, calls>>

\* step_fn, lines 88-93: u[0] = u0; k[0] = F(u0)
step_fn(x) ==
  /\ pc = "step_fn"
  /\ u0' = x
  /\ u' = <<x>>
  /\ k' = <<F(x)>>
  /\ calls' = <<Call("explicit_terms", x, F(x))>>
  /\ i' = 1
  /\ pc' = "for"
  /\ UNCHANGED <<imexVars, wrapperVars, nsVars>>
  /\ UNCHANGED <<factory, a, b, equation, time_step, err, u_star, u_final>>

\* lines 95-96: the loop test and u_star = u0 + dt * _sum(...)
stage_sum ==
  /\ pc = "for"
  /\ i < num_steps
  /\ LET xs == WeightedTerms(a[i], k, i)
     IN  IF SumRaises(xs)
           THEN /\ err' = "ValueError"
                /\ pc' = "step_raised"
                /\ UNCHANGED u_star
           ELSE /\ u_star' = u0 + time_step * _sum(xs)
                /\ pc' = "project"
                /\ UNCHANGED err
  /\ UNCHANGED <<imexVars, wrapperVars, nsVars>>
  /\ UNCHANGED <<factory, a, b, equation, time_step, u0, i, k, u, u_final,
                 calls>>

\* line 97: u[i] = P(u_star)
stage_project ==
  /\ pc = "project"
  /\ u' = Append(u, P(u_star))
  /\ calls' = Append(calls, Call("pressure_projection", u_star, P(u_star)))
  /\ pc' = "evaluate"
  /\ UNCHANGED <<imexVars, wrapperVars, nsVars>>
  /\ UNCHANGED <<factory, a, b, equation, time_step, err, u0, i, k, u_star,
                 u_final>>

\* line 98: k[i] = F(u[i]), and the loop's next i
stage_evaluate ==
  /\ pc = "evaluate"
  /\ k' = Append(k, F(u[i + 1]))
  /\ calls' = Append(calls, Call("explicit_terms", u[i + 1], F(u[i + 1])))
  /\ i' = i + 1
  /\ pc' = "for"
  /\ UNCHANGED <<imexVars, wrapperVars, nsVars>>
  /\ UNCHANGED <<factory, a, b, equation, time_step, err, u0, u, u_star,
                 u_final>>

\* line 100: after the loop, u_star = u0 + dt * _sum(b[j] * k[j] ...)
final_sum ==
  /\ pc = "for"
  /\ ~(i < num_steps)
  /\ LET xs == WeightedTerms(b, k, num_steps)
     IN  IF SumRaises(xs)
           THEN /\ err' = "ValueError"
                /\ pc' = "step_raised"
                /\ UNCHANGED u_star
           ELSE /\ u_star' = u0 + time_step * _sum(xs)
                /\ pc' = "final_project"
                /\ UNCHANGED err
  /\ UNCHANGED <<imexVars, wrapperVars, nsVars>>
  /\ UNCHANGED <<factory, a, b, equation, time_step, u0, i, k, u, u_final,
                 calls>>

\* lines 101-103: u_final = P(u_star); return u_final
final_project ==
  /\ pc = "final_project"
  /\ u_final' = P(u_star)
  /\ calls' = Append(calls, Call("pressure_projection", u_star, P(u_star)))
  /\ pc' = "returned"
  /\ UNCHANGED <<imexVars, wrapperVars, nsVars>>
  /\ UNCHANGED <<factory, a, b, equation, time_step, err, u0, i, k, u, u_star>>

NextRK ==
  \/ navier_stokes_rk
  \/ \E x \in States : step_fn(x)
  \/ stage_sum
  \/ stage_project
  \/ stage_evaluate
  \/ final_sum
  \/ final_project

SpecRK == InitRK /\ [][NextRK]_vars

-----------------------------------------------------------------------------
(* spectral/time_stepping.py: the implicit-explicit steppers *)

Methods == {"explicit_terms", "implicit_terms", "implicit_solve"}

\* The functions of a concrete ImplicitExplicitODE are the caller's.
\* explicit_terms: zero and x -> 2x; implicit_terms: zero and x -> -x;
\* implicit_solve: (x, step) -> x and (x, step) -> x - step.
ImplicitExplicitODE ==
  [explicit_terms : {"zero", "double"},
   implicit_terms : {"zero", "neg"},
   implicit_solve : {"identity", "damp"},
   implemented : SUBSET Methods]

\* a base class method that returns instead of raising, implicit_solve apart
Omitted_solveOnly(fn) == fn = "implicit_solve" /\ fn \notin ode.implemented

\* ImplicitExplicitODE, lines 77-89: a method the concrete class leaves out
\* is the base class's, whose body is "raise NotImplementedError"
Omitted(fn) == fn \notin ode.implemented

\* F, G and G_inv of the factories (lines 108-109, 140-142, 193-195)
imex_F(x) == IF ode.explicit_terms = "zero" THEN 0 ELSE 2 * x

imex_G(x) == IF ode.implicit_terms = "zero" THEN 0 ELSE -x

G_inv(x, step) == IF ode.implicit_solve = "identity" THEN x ELSE x - step

\* "0.5 * x" (lines 146, 148, 149, 205), exact on the even x of the model
Half(x) == x \div 2

\* line 197, "if len(alphas) - 1 != len(betas) != len(gammas)": Python
\* chains the comparison, x != y != z is (x != y) and (y != z)
LengthsRejected(al, be, ga) ==
  (Len(al) - 1 # Len(be)) /\ (Len(be) # Len(ga))

\* the length invariant the coefficients are documented to satisfy
LengthsMatch(al, be, ga) == Len(al) - 1 = Len(be) /\ Len(be) = Len(ga)

\* Coefficient values, by Python index j: the "unit" table has betas[0] = 0
\* as the convention asks, the "mixed" table does not.
CoefTables == {"unit", "mixed"}

AlphaAt(tbl, j) == IF tbl = "unit" THEN j ELSE j * j

BetaAt(tbl, j) == IF tbl = "unit" THEN (IF j = 0 THEN 0 ELSE -1) ELSE j + 1

GammaAt(tbl, j) == IF tbl = "unit" THEN 1 ELSE 2 - (j % 2)

\* the coefficients low_storage_runge_kutta_crank_nicolson is called with:
\* every combination of lengths, matching or not
LowStorageCoefficients ==
  {[alphas |-> [m \in 1..la |-> AlphaAt(tbl, m - 1)],
    betas |-> [m \in 1..lb |-> BetaAt(tbl, m - 1)],
    gammas |-> [m \in 1..lg |-> GammaAt(tbl, m - 1)]] :
     tbl \in CoefTables,
     la \in 0..(MaxLowStorage + 1),
     lb \in 0..MaxLowStorage,
     lg \in 0..MaxLowStorage}

\* the betas of the coefficient sets that differ from betas in betas[0] only
BetaVariants(be) ==
  IF be = <<>> THEN {be} ELSE {[be EXCEPT ![1] = b0] : b0 \in Beta0s \cup {be[1]}}

\* the scalar h starts from at line 202: the h of the call before
h_seed_stale == h

\* line 202: "h = 0"
h_seed == 0

\* navier_stokes_rk, not called
IdleRK ==
  /\ factory = "none"
  /\ a = <<>>
  /\ b = <<>>
  /\ equation = [explicit_terms |-> "zero", pressure_projection |-> "identity"]
  /\ time_step = 0
  /\ pc = "idle"
  /\ err = "none"
  /\ u0 = 0
  /\ i = 0
  /\ k = <<>>
  /\ u = <<>>
  /\ u_star = 0
  /\ u_final = 0
  /\ calls = <<>>

InitIMEX ==
  /\ IdleRK
  /\ IdleWrapper
  /\ IdleNS
  /\ \/ /\ stepper \in {"backward_forward_euler", "crank_nicolson_rk2"}
        /\ alphas = <<>>
        /\ betas = <<>>
        /\ gammas = <<>>
     \/ /\ stepper = "low_storage_runge_kutta_crank_nicolson"
        /\ \E cs \in LowStorageCoefficients :
             alphas = cs.alphas /\ betas = cs.betas /\ gammas = cs.gammas
  /\ ode \in ImplicitExplicitODE
  /\ dt \in EvenTimeSteps
  /\ ipc = "construct"
  /\ ierr = "none"
  /\ ncalls = 0
  /\ arg = 0
  /\ beta = <<>>
  /\ g = 0
  /\ h1 = 0
  /\ u1 = 0
  /\ h2 = 0
  /\ ls_u = 0
  /\ h = 0
  /\ mu = 0
  /\ ls_k = 0
  /\ out = 0
  /\ called = <<>>
  /\ returns = {}

\* "return" of a step function with value v
Return(v) ==
  /\ out' = v
  /\ returns' = returns \cup
       {[arg |-> arg, beta0 |-> IF beta = <<>> THEN 0 ELSE beta[1], out |-> v]}
  /\ ncalls' = ncalls + 1
  /\ ierr' = ierr
  /\ ipc' = "step_fn"

\* an exception e leaves the step function
Raise(e) ==
  /\ ierr' = e
  /\ ipc' = "step_raised"
  /\ UNCHANGED <<out, returns, ncalls>>

\* backward_forward_euler, lines 107-116: returns step_fn, checks nothing
backward_forward_euler ==
  /\ ipc = "construct"
  /\ stepper = "backward_forward_euler"
  /\ ipc' = "step_fn"
  /\ UNCHANGED <<rkVars, wrapperVars, nsVars>>
  /\ UNCHANGED <<stepper, alphas, betas, gammas, ode, dt, ierr, ncalls, arg,
                 beta, g, h1, u1, h2, ls_u, h, mu, ls_k, out, called,
                 returns>>

\* crank_nicolson_rk2, lines 139-152: returns step_fn, checks nothing
crank_nicolson_rk2 ==
  /\ ipc = "construct"
  /\ stepper = "crank_nicolson_rk2"
  /\ ipc' = "step_fn"
  /\ UNCHANGED <<rkVars, wrapperVars, nsVars>>
  /\ UNCHANGED <<stepper, alphas, betas, gammas, ode, dt, ierr, ncalls, arg,
                 beta, g, h1, u1, h2, ls_u, h, mu, ls_k, out, called,
                 returns>>

\* low_storage_runge_kutta_crank_nicolson, lines 189-208: raise ValueError
\* or return step_fn
low_storage_runge_kutta_crank_nicolson ==
  /\ ipc = "construct"
  /\ stepper = "low_storage_runge_kutta_crank_nicolson"
  /\ IF LengthsRejected(alphas, betas, gammas)
       THEN /\ ierr' = "ValueError"
            /\ ipc' = "construct_raised"
       ELSE /\ ierr' = ierr
            /\ ipc' = "step_fn"
  /\ UNCHANGED <<rkVars, wrapperVars, nsVars>>
  /\ UNCHANGED <<stepper, alphas, betas, gammas, ode, dt, ncalls, arg, beta,
                 g, h1, u1, h2, ls_u, h, mu, ls_k, out, called, returns>>

\* a call of backward_forward_euler's step_fn (line 112)
bfe_step_fn(x) ==
  /\ ipc = "step_fn"
  /\ stepper = "backward_forward_euler"
  /\ ncalls < MaxCalls
  /\ arg' = x
  /\ called' = <<>>
  /\ ipc' = "bfe_113"
  /\ UNCHANGED <<rkVars, wrapperVars, nsVars>>
  /\ UNCHANGED <<stepper, alphas, betas, gammas, ode, dt, ierr, ncalls, beta,
                 g, h1, u1, h2, ls_u, h, mu, ls_k, out, returns>>

\* line 113: g = u0 + dt * F(u0)
bfe_g ==
  /\ ipc = "bfe_113"
  /\ called' = Append(called, "explicit_terms")
  /\ IF Omitted("explicit_terms")
       THEN Raise("NotImplementedError") /\ g' = g
       ELSE /\ g' = arg + dt * imex_F(arg)
            /\ ipc' = "bfe_114"
            /\ UNCHANGED <<ierr, out, returns, ncalls>>
  /\ UNCHANGED <<rkVars, wrapperVars, nsVars>>
  /\ UNCHANGED <<stepper, alphas, betas, gammas, ode, dt, arg, beta, h1, u1,
                 h2, ls_u, h, mu, ls_k>>

\* lines 114-115: u1 = G_inv(g, dt); return u1
bfe_u1 ==
  /\ ipc = "bfe_114"
  /\ called' = Append(called, "implicit_solve")
  /\ IF Omitted("implicit_solve")
       THEN Raise("NotImplementedError") /\ u1' = u1
       ELSE /\ u1' = G_inv(g, dt)
            /\ Return(G_inv(g, dt))
  /\ UNCHANGED <<rkVars, wrapperVars, nsVars>>
  /\ UNCHANGED <<stepper, alphas, betas, gammas, ode, dt, arg, beta, g, h1,
                 h2, ls_u, h, mu, ls_k>>

\* a call of crank_nicolson_rk2's step_fn (line 145)
cn_step_fn(x) ==
  /\ ipc = "step_fn"
  /\ stepper = "crank_nicolson_rk2"
  /\ ncalls < MaxCalls
  /\ arg' = x
  /\ called' = <<>>
  /\ ipc' = "cn_146"
  /\ UNCHANGED <<rkVars, wrapperVars, nsVars>>
  /\ UNCHANGED <<stepper, alphas, betas, gammas, ode, dt, ierr, ncalls, beta,
                 g, h1, u1, h2, ls_u, h, mu, ls_k, out, returns>>

\* line 146: g = u0 + 0.5 * dt * G(u0)
cn_g ==
  /\ ipc = "cn_146"
  /\ called' = Append(called, "implicit_terms")
  /\ IF Omitted("implicit_terms")
       THEN Raise("NotImplementedError") /\ g' = g
       ELSE /\ g' = arg + Half(dt) * imex_G(arg)
            /\ ipc' = "cn_147"
            /\ UNCHANGED <<ierr, out, returns, ncalls>>
  /\ UNCHANGED <<rkVars, wrapperVars, nsVars>>
  /\ UNCHANGED <<stepper, alphas, betas, gammas, ode, dt, arg, beta, h1, u1,
                 h2, ls_u, h, mu, ls_k>>

\* line 147: h1 = F(u0)
cn_h1 ==
  /\ ipc = "cn_147"
  /\ called' = Append(called, "explicit_terms")
  /\ IF Omitted("explicit_terms")
       THEN Raise("NotImplementedError") /\ h1' = h1
       ELSE /\ h1' = imex_F(arg)
            /\ ipc' = "cn_148"
            /\ UNCHANGED <<ierr, out, returns, ncalls>>
  /\ UNCHANGED <<rkVars, wrapperVars, nsVars>>
  /\ UNCHANGED <<stepper, alphas, betas, gammas, ode, dt, arg, beta, g, u1,
                 h2, ls_u, h, mu, ls_k>>

\* line 148: u1 = G_inv(g + dt * h1, 0.5 * dt)
cn_u1 ==
  /\ ipc = "cn_148"
  /\ called' = Append(called, "implicit_solve")
  /\ IF Omitted("implicit_solve")
       THEN Raise("NotImplementedError") /\ u1' = u1
       ELSE /\ u1' = G_inv(g + dt * h1, Half(dt))
            /\ ipc' = "cn_149"
            /\ UNCHANGED <<ierr, out, returns, ncalls>>
  /\ UNCHANGED <<rkVars, wrapperVars, nsVars>>
  /\ UNCHANGED <<stepper, alphas, betas, gammas, ode, dt, arg, beta, g, h1,
                 h2, ls_u, h, mu, ls_k>>

\* line 149: h2 = 0.5 * (F(u1) + h1); explicit_terms has answered at
\* line 147
cn_h2 ==
  /\ ipc = "cn_149"
  /\ called' = Append(called, "explicit_terms")
  /\ IF Omitted("explicit_terms")
       THEN Raise("NotImplementedError") /\ h2' = h2
       ELSE /\ h2' = Half(imex_F(u1) + h1)
            /\ ipc' = "cn_150"
            /\ UNCHANGED <<ierr, out, returns, ncalls>>
  /\ UNCHANGED <<rkVars, wrapperVars, nsVars>>
  /\ UNCHANGED <<stepper, alphas, betas, gammas, ode, dt, arg, beta, g, h1,
                 u1, ls_u, h, mu, ls_k>>

\* lines 150-151: u2 = G_inv(g + dt * h2, 0.5 * dt); return u2
cn_u2 ==
  /\ ipc = "cn_150"
  /\ called' = Append(called, "implicit_solve")
  /\ IF Omitted("implicit_solve")
       THEN Raise("NotImplementedError")
       ELSE Return(G_inv(g + dt * h2, Half(dt)))
  /\ UNCHANGED <<rkVars, wrapperVars, nsVars>>
  /\ UNCHANGED <<stepper, alphas, betas, gammas, ode, dt, arg, beta, g, h1,
                 u1, h2, ls_u, h, mu, ls_k>>

\* a call of the low storage step_fn (lines 201-202), of the stepper built
\* with betas be: u is the argument, h = 0
ls_step_fn(x, be) ==
  /\ ipc = "step_fn"
  /\ stepper = "low_storage_runge_kutta_crank_nicolson"
  /\ ncalls < MaxCalls
  /\ arg' = x
  /\ beta' = be
  /\ called' = <<>>
  /\ ls_u' = x
  /\ h' = h_seed
  /\ ls_k' = 0
  /\ ipc' = "ls_for"
  /\ UNCHANGED <<rkVars, wrapperVars, nsVars>>
  /\ UNCHANGED <<stepper, alphas, betas, gammas, ode, dt, ierr, ncalls, g,
                 h1, u1, h2, mu, out, returns>>

\* lines 203-204: the loop test and h = F(u) + beta[k] * h
ls_h ==
  /\ ipc = "ls_for"
  /\ ls_k < Len(beta)
  /\ called' = Append(called, "explicit_terms")
  /\ IF Omitted("explicit_terms")
       THEN Raise("NotImplementedError") /\ h' = h
       ELSE /\ h' = imex_F(ls_u) + beta[ls_k + 1] * h
            /\ ipc' = "ls_205"
            /\ UNCHANGED <<ierr, out, returns, ncalls>>
  /\ UNCHANGED <<rkVars, wrapperVars, nsVars>>
  /\ UNCHANGED <<stepper, alphas, betas, gammas, ode, dt, arg, beta, g, h1,
                 u1, h2, ls_u, mu, ls_k>>

\* line 205: mu = 0.5 * dt * (alpha[k + 1] - alpha[k]); alpha[k + 1] raises
\* IndexError when alphas has no more than k + 1 entries
ls_mu ==
  /\ ipc = "ls_205"
  /\ IF ls_k + 1 >= Len(alphas)
       THEN Raise("IndexError") /\ mu' = mu
       ELSE /\ mu' = Half(dt) * (alphas[ls_k + 2] - alphas[ls_k + 1])
            /\ ipc' = "ls_206"
            /\ UNCHANGED <<ierr, out, returns, ncalls>>
  /\ UNCHANGED <<rkVars, wrapperVars, nsVars>>
  /\ UNCHANGED <<stepper, alphas, betas, gammas, ode, dt, arg, beta, g, h1,
                 u1, h2, ls_u, h, ls_k, called>>

\* line 206: u = G_inv(u + gamma[k] * dt * h + mu * G(u), mu), evaluated left
\* to right: gamma[k], then G(u), then G_inv
ls_solve ==
  /\ ipc = "ls_206"
  /\ IF ls_k >= Len(gammas)
       THEN /\ Raise("IndexError")
            /\ UNCHANGED <<called, ls_u, ls_k>>
       ELSE IF Omitted("implicit_terms")
       THEN /\ Raise("NotImplementedError")
            /\ called' = Append(called, "implicit_terms")
            /\ UNCHANGED <<ls_u, ls_k>>
       ELSE IF Omitted("implicit_solve")
       THEN /\ Raise("NotImplementedError")
            /\ called' = called \o <<"implicit_terms", "implicit_solve">>
            /\ UNCHANGED <<ls_u, ls_k>>
       ELSE /\ ls_u' = G_inv(ls_u + gammas[ls_k + 1] * dt * h + mu * imex_G(ls_u), mu)
            /\ called' = called \o <<"implicit_terms", "implicit_solve">>
            /\ ls_k' = ls_k + 1
            /\ ipc' = "ls_for"
            /\ UNCHANGED <<ierr, out, returns, ncalls>>
  /\ UNCHANGED <<rkVars, wrapperVars, nsVars>>
  /\ UNCHANGED <<stepper, alphas, betas, gammas, ode, dt, arg, beta, g, h1,
                 u1, h2, h, mu>>

\* lines 203, 207: the loop is over; return u
ls_return ==
  /\ ipc = "ls_for"
  /\ ~(ls_k < Len(beta))
  /\ Return(ls_u)
  /\ UNCHANGED <<rkVars, wrapperVars, nsVars>>
  /\ UNCHANGED <<stepper, alphas, betas, gammas, ode, dt, arg, beta, g, h1,
                 u1, h2, ls_u, h, mu, ls_k, called>>

\* arguments of a step function
Inputs == {1, 2}

NextIMEX ==
  \/ backward_forward_euler
  \/ crank_nicolson_rk2
  \/ low_storage_runge_kutta_crank_nicolson
  \/ \E x \in Inputs : bfe_step_fn(x)
  \/ bfe_g
  \/ bfe_u1
  \/ \E x \in Inputs : cn_step_fn(x)
  \/ cn_g
  \/ cn_h1
  \/ cn_u1
  \/ cn_h2
  \/ cn_u2
  \/ \E x \in Inputs : \E be \in BetaVariants(betas) : ls_step_fn(x, be)
  \/ ls_h
  \/ ls_mu
  \/ ls_solve
  \/ ls_return

SpecIMEX == InitIMEX /\ [][NextIMEX]_vars

-----------------------------------------------------------------------------
(* spectral/time_stepping.py: _InfixArithmeticWrapper *)

IsLeaf(x) == x.tag \in {"float", "ndarray"}

\* the pytrees of the model: leaves, lists and tuples of one or two leaves,
\* and lists that hold a leaf and a list of two floats
FloatLeaves == {Float(1), Float(2)}

ArrayLeaves == {NdArray(<<1, 2>>), NdArray(<<3, 5>>)}

Leaves == FloatLeaves \cup ArrayLeaves

FlatNodes ==
  {Node(tg, ks) : tg \in {"list", "tuple"},
                  ks \in SeqsOfLen(Leaves, 1) \cup SeqsOfLen(Leaves, 2)}

FloatLists == {Node("list", ks) : ks \in SeqsOfLen(FloatLeaves, 2)}

NestedNodes == {Node("list", <<x, y>>) : x \in Leaves, y \in FloatLists}

Pytrees == Leaves \cup FlatNodes \cup NestedNodes

\* numpy's conversion of the right operand of "+" to an array: a leaf is
\* its numbers, a list or tuple of Python floats the array of them
Convertible(y) ==
  IsLeaf(y) \/ \A m \in 1..Len(y.kids) : y.kids[m].tag = "float"

AsArray(y) ==
  IF IsLeaf(y) THEN y.elems ELSE [m \in 1..Len(y.kids) |-> y.kids[m].elems[1]]

\* numpy's broadcasting of two arrays of one axis
Broadcasts(n, m) == n = m \/ n = 1 \/ m = 1

ElemAt(xs, j) == IF Len(xs) = 1 THEN xs[1] ELSE xs[j]

Longer(n, m) == IF n >= m THEN n ELSE m

\* operator.add(x, y) for a leaf x and whatever tree_map hands it as y:
\* a Python float plus a list or tuple is a TypeError, an ndarray plus a
\* list or tuple of floats is the broadcast sum, arrays that do not
\* broadcast are a ValueError
operator_add(x, y) ==
  IF ~IsLeaf(y) /\ x.tag = "float"
    THEN [err |-> "TypeError", tree |-> NoTree]
  ELSE IF ~Convertible(y) \/ ~Broadcasts(Len(x.elems), Len(AsArray(y)))
    THEN [err |-> "ValueError", tree |-> NoTree]
  ELSE LET xs == x.elems
           ys == AsArray(y)
           zs == [j \in 1..Longer(Len(xs), Len(ys)) |->
                    ElemAt(xs, j) + ElemAt(ys, j)]
       IN  [err |-> "none",
            tree |-> IF x.tag = "float" /\ y.tag = "float"
                       THEN Float(zs[1]) ELSE NdArray(zs)]

\* tree_util.tree_map(operator.add, x, y) (line 34): y is flattened up to
\* the structure of x, so at a leaf of x the whole subtree of y is the
\* second argument of operator.add; at a node of x, y must be a node of the
\* same type and number of children, ValueError otherwise
RECURSIVE tree_map_add(_, _)
tree_map_add(x, y) ==
  IF IsLeaf(x) THEN operator_add(x, y)
  ELSE IF IsLeaf(y) \/ y.tag # x.tag \/ Len(y.kids) # Len(x.kids)
    THEN [err |-> "ValueError", tree |-> NoTree]
  ELSE LET rs == [m \in 1..Len(x.kids) |-> tree_map_add(x.kids[m], y.kids[m])]
           bad == {m \in 1..Len(rs) : rs[m].err # "none"}
       IN  IF bad = {}
             THEN [err |-> "none",
                   tree |-> Node(x.tag, [m \in 1..Len(rs) |-> rs[m].tree])]
             ELSE [err |-> rs[CHOOSE m \in bad : \A n \in bad : m <= n].err,
                   tree |-> NoTree]

\* tree_util.tree_map(lambda x: x + other, self.pytree) (line 36), other a
\* Python float
RECURSIVE tree_map_scalar(_, _)
tree_map_scalar(x, c) ==
  IF IsLeaf(x)
    THEN [tag |-> x.tag,
          elems |-> [j \in 1..Len(x.elems) |-> x.elems[j] + c],
          kids |-> <<>>]
    ELSE Node(x.tag, [m \in 1..Len(x.kids) |-> tree_map_scalar(x.kids[m], c)])

\* The sums of the model stay within arrays of one axis: where a leaf of x
\* that is an ndarray meets a list or tuple of y, that holds floats only.
RECURSIVE OneAxis(_, _)
OneAxis(x, y) ==
  IF IsLeaf(x) THEN x.tag = "float" \/ Convertible(y)
  ELSE IF IsLeaf(y) \/ y.tag # x.tag \/ Len(y.kids) # Len(x.kids) THEN TRUE
  ELSE \A m \in 1..Len(x.kids) : OneAxis(x.kids[m], y.kids[m])

InitWrapper ==
  /\ IdleRK
  /\ IdleIMEX
  /\ IdleNS
  /\ self_pytree \in Pytrees
  /\ \/ /\ other_wrapped = TRUE
        /\ other \in Pytrees
        /\ OneAxis(self_pytree, other)
     \/ /\ other_wrapped = FALSE
        /\ other \in FloatLeaves
  /\ wpc = "call"
  /\ werr = "none"
  /\ result = NoTree

\* _InfixArithmeticWrapper.__add__, lines 32-37
add ==
  /\ wpc = "call"
  /\ IF other_wrapped
       THEN LET r == tree_map_add(self_pytree, other)
            IN  /\ werr' = r.err
                /\ result' = r.tree
                /\ wpc' = IF r.err = "none" THEN "returned" ELSE "raised"
       ELSE /\ werr' = werr
            /\ result' = tree_map_scalar(self_pytree, other.elems[1])
            /\ wpc' = "returned"
  /\ UNCHANGED <<self_pytree, other, other_wrapped>>
  /\ UNCHANGED <<rkVars, imexVars, nsVars>>

NextWrapper == add

SpecWrapper == InitWrapper /\ [][NextWrapper]_vars

-----------------------------------------------------------------------------
(* spectral/equations.py: NavierStokes2D *)

\* arrays in frequency space hold two modes
Modes == {1, 2}

\* the advection term in frequency space (line 64); it comes from
\* vorticity_hat through FFTs that are not modelled
AdvectionHats == [Modes -> {0, 1, 2}]

\* self.filter_ (line 51), the mask of the 2/3 rule: it keeps the first
\* mode and keeps or drops the second
Filters == {<<1, 1>>, <<1, 0>>}

\* rfftn of the forcing (line 72)
ForcingHats == {<<0, 3>>}

Times(v, w) == [m \in Modes |-> v[m] * w[m]]

Plus(v, w) == [m \in Modes |-> v[m] + w[m]]

\* line 66: "if self.smooth is not None"
SmoothingOn == smooth # "None"

\* line 71: "if self.forcing_fn is not None"
ForcingOn == forcing_fn # "None"

\* NavierStokes2D(...) (lines 42-52) and ForcedNavierStokes2D(viscosity, grid,
\* smooth) (lines 100-105), which passes smooth on and sets the forcing
InitNS ==
  /\ IdleRK
  /\ IdleIMEX
  /\ IdleWrapper
  /\ made_by \in {"NavierStokes2D", "ForcedNavierStokes2D"}
  /\ smooth \in {"True", "False", "None"}
  /\ forcing_fn \in
       IF made_by = "ForcedNavierStokes2D" THEN {"kolmogorov_forcing_fn"}
       ELSE {"None", "kolmogorov_forcing_fn"}
  /\ filter_ \in Filters
  /\ advection_hat \in AdvectionHats
  /\ forcing_hat \in IF forcing_fn = "None" THEN {<<0, 0>>} ELSE ForcingHats
  /\ terms = <<>>
  /\ npc = "call"

\* NavierStokes2D.explicit_terms, lines 66-74
explicit_terms ==
  /\ npc = "call"
  /\ LET filtered == IF SmoothingOn THEN Times(advection_hat, filter_)
                     ELSE advection_hat
     IN  terms' = IF ForcingOn THEN Plus(filtered, forcing_hat) ELSE filtered
  /\ npc' = "returned"
  /\ UNCHANGED <<made_by, smooth, forcing_fn, filter_, advection_hat,
                 forcing_hat>>
  /\ UNCHANGED <<rkVars, imexVars, wrapperVars>>

NextNS == explicit_terms

SpecNS == InitNS /\ [][NextNS]_vars

-----------------------------------------------------------------------------
(* Claims about navier_stokes_rk, checked under SpecRK *)

\* step_fn has ended, by returning or by raising
StepEnded == pc \in {"returned", "step_raised"}

\* C2: construction raises ValueError and returns no step function exactly
\* when len(a) + 1 != len(b); every other tableau, the four presets
\* included, gets its step function.
TableauConsistency ==
  pc # "construct" =>
    /\ Len(a) + 1 # Len(b) => pc = "construct_raised" /\ err = "ValueError"
    /\ Len(a) + 1 = Len(b) => pc # "construct_raised"
    /\ factory \in PresetNames => pc # "construct_raised"

\* a tableau of two rows and two weights has been refused
TableauRefused ==
  /\ pc = "construct_raised"
  /\ Len(a) = 2
  /\ Len(b) = 2
  /\ calls = <<>>

\* C3: once navier_stokes_rk has accepted a tableau, no call of the step
\* function raises: no error in the middle of a step.
NoErrorMidStep == pc # "step_raised"

\* C4: with zero explicit terms and the identity projection a step of any
\* accepted tableau ends by returning its input.
ZeroDynamicsFixedPoint ==
  (/\ equation.explicit_terms = "zero"
   /\ equation.pressure_projection = "identity"
   /\ StepEnded)
  => pc = "returned" /\ u_final = u0

\* C5: a step of n = len(b) stages calls explicit_terms(u0), then
\* pressure_projection and explicit_terms in turn, each explicit_terms on
\* the value the projection before it returned, and ends with the
\* pressure_projection whose value it returns: n calls of each.
StrictStageOrder ==
  StepEnded =>
    /\ Len(calls) = 2 * num_steps
    /\ \A m \in 1..Len(calls) :
         calls[m].fn = IF m % 2 = 1 THEN "explicit_terms"
                                    ELSE "pressure_projection"
    /\ calls[1].arg = u0
    /\ \A m \in 2..Len(calls) : m % 2 = 1 => calls[m].arg = calls[m - 1].ret
    /\ pc = "returned"
    /\ u_final = calls[Len(calls)].ret

\* the reference scheme: every term summed, the zero-weighted ones too,
\* starting from the additive identity
RECURSIVE RefSum(_, _, _)
RefSum(row, ks, n) ==
  IF n = 0 THEN 0 ELSE RefSum(row, ks, n - 1) + row[n] * ks[n]

RECURSIVE RefK(_)
RefK(n) ==
  IF n = 1 THEN <<F(u0)>>
  ELSE LET ks == RefK(n - 1)
       IN  Append(ks, F(P(u0 + time_step * RefSum(a[n - 1], ks, n - 1))))

RefFinal == P(u0 + time_step * RefSum(b, RefK(num_steps), num_steps))

\* each row of a, and b, holds a nonzero entry
NonzeroRows ==
  /\ \A r \in 1..Len(a) : \E j \in 1..Len(a[r]) : a[r][j] # 0
  /\ \E j \in 1..Len(b) : b[j] # 0

\* C9: for an accepted tableau whose rows and weights each hold a nonzero
\* entry, the step raises nothing, its k are the reference scheme's, and it
\* returns what the reference scheme returns.
SkippingZerosKeepsResult ==
  (NonzeroRows /\ pc \notin {"construct", "construct_raised", "step_fn"}) =>
    /\ pc # "step_raised"
    /\ k = SubSeq(RefK(num_steps), 1, Len(k))
    /\ pc = "returned" => u_final = RefFinal

\* a three-stage step with skipped zeros has returned a state other than
\* its input
ZerosSkipped ==
  /\ pc = "returned"
  /\ NonzeroRows
  /\ num_steps = 3
  /\ \E j \in 1..2 : a[2][j] = 0
  /\ \E j \in 1..3 : b[j] = 0
  /\ equation.explicit_terms = "neg"
  /\ u_final # u0

-----------------------------------------------------------------------------
(* Claims about the implicit-explicit steppers, checked under SpecIMEX *)

LowStorage == stepper = "low_storage_runge_kutta_crank_nicolson"

\* C1: low_storage_runge_kutta_crank_nicolson raises a configuration error
\* at construction, and returns no step function, for every alphas, betas,
\* gammas that break len(alphas) - 1 == len(betas) == len(gammas).
LengthInvariantEnforced ==
  (LowStorage /\ ipc # "construct" /\ ~LengthsMatch(alphas, betas, gammas))
    => (ipc = "construct_raised" /\ ierr = "ValueError")

Beta0Irrelevant ==
  \A r1, r2 \in returns : r1.arg = r2.arg => r1.out = r2.out

\* two calls, of step functions of at least two stages that differ in
\* betas[0], have returned for the same argument, with nonzero explicit terms
TwoBeta0sReturned ==
  /\ LowStorage
  /\ Len(betas) >= 2
  /\ ode.explicit_terms = "double"
  /\ ncalls = 2
  /\ \E r1, r2 \in returns :
       r1.arg = r2.arg /\ r1.beta0 # r2.beta0 /\ r1.out # r1.arg

-----------------------------------------------------------------------------
(* Claims about _InfixArithmeticWrapper, checked under SpecWrapper *)

RECURSIVE SameStructure(_, _)
SameStructure(x, y) ==
  IF IsLeaf(x) \/ IsLeaf(y) THEN IsLeaf(x) /\ IsLeaf(y)
  ELSE /\ x.tag = y.tag
       /\ Len(x.kids) = Len(y.kids)
       /\ \A m \in 1..Len(x.kids) : SameStructure(x.kids[m], y.kids[m])

RECURSIVE Flatten(_)
Flatten(x) ==
  IF IsLeaf(x) THEN <<x>>
  ELSE IF Len(x.kids) = 1 THEN Flatten(x.kids[1])
  ELSE Flatten(x.kids[1]) \o Flatten(x.kids[2])

LeafSum(x, y) ==
  [j \in 1..Longer(Len(x.elems), Len(y.elems)) |->
     ElemAt(x.elems, j) + ElemAt(y.elems, j)]

\* C8: wrap(s) + wrap(t) returns the leaf by leaf sum, in the structure of
\* s, when s and t have the same structure, and raises when their
\* structures differ in any way, t being nested more deeply than s included.
AdditionNeedsSameStructure ==
  (other_wrapped /\ wpc \in {"returned", "raised"}) =>
    IF SameStructure(self_pytree, other)
      THEN /\ wpc = "returned"
           /\ SameStructure(result, self_pytree)
           /\ \A m \in 1..Len(Flatten(result)) :
                Flatten(result)[m].elems =
                  LeafSum(Flatten(self_pytree)[m], Flatten(other)[m])
      ELSE wpc = "raised"

-----------------------------------------------------------------------------
(* Claims about NavierStokes2D, checked under SpecNS *)

\* C6: explicit_terms returns the advection term times the filter when
\* smooth is True and the advection term as it is when smooth is False,
\* plus the forcing term unless forcing_fn is None.
DealiasingOnlyWhenSmooth ==
  npc = "returned" =>
    LET advection == IF smooth = "False" THEN advection_hat
                     ELSE Times(advection_hat, filter_)
    IN  smooth \in {"True", "False"} =>
          terms = IF forcing_fn = "None" THEN advection
                  ELSE Plus(advection, forcing_hat)

====
